---- MODULE Spec2Model ----
(***************************************************************************)
(* A model of the 0hh1 puzzle solver: src/ohhi.py (the puzzle, its two     *)
(* propagators, its evaluator and its own depth-first search) and          *)
(* src/cp_solver.py (the generic propagation driver and search).           *)
(*                                                                         *)
(* A grid is a function from (row, col) pairs to "r", "b" or "."; a        *)
(* problem is a dictionary object holding a reference to its cells         *)
(* dictionary and a state.  Python passes both by reference, so the model  *)
(* keeps a heap of cells dictionaries and a heap of problem dictionaries.  *)
(***************************************************************************)
EXTENDS Integers, Sequences, FiniteSets, TLC

\* ------------------------------------------------------------------------
\* Grids
\* ------------------------------------------------------------------------

Coords(size) == (0 .. size - 1) \X (0 .. size - 1)

\* range(a, b) of Python, as a sequence
Range(a, b) == [i \in 1 .. (IF b > a THEN b - a ELSE 0) |-> a + i - 1]

\* the nested loops "for row in rows: for col in cols", as the sequence of
\* the cells they visit
ScanOrder(rows, cols) ==
    [k \in 1 .. Len(rows) * Len(cols) |->
        <<rows[((k - 1) \div Len(cols)) + 1], cols[((k - 1) % Len(cols)) + 1]>>]

\* [cells[(row, i)] for i in range(size)] and [cells[(i, col)] ...]
RowOf(cells, size, row) == [i \in 1 .. size |-> cells[<<row, i - 1>>]]
ColOf(cells, size, col) == [i \in 1 .. size |-> cells[<<i - 1, col>>]]

\* sum(1 for cell in line if cell == colour)
CountOf(line, colour) == Cardinality({i \in DOMAIN line : line[i] = colour})

\* solved(problem): every cell is set to a colour
solved(cells) == \A c \in DOMAIN cells : cells[c] \in {"r", "b"}

\* ------------------------------------------------------------------------
\* The no-triple propagator.  A propagator's outcome is the cells
\* dictionary as it leaves it, the value it returns and whether it raised.
\* ------------------------------------------------------------------------

\* a mutant: the test "if this_cell in 'rb': continue" is left out
RECURSIVE ecl_scan_unguarded(_, _, _, _, _)
ecl_scan_unguarded(st, keys, order, mask, k) ==
    IF k > Len(order) \/ st.raised THEN st
    ELSE LET cell == order[k]
             n1   == <<cell[1] + mask[1][1], cell[2] + mask[1][2]>>
             n2   == <<cell[1] + mask[2][1], cell[2] + mask[2][2]>>
         IN  IF n1 \notin keys \/ n2 \notin keys
             THEN [st EXCEPT !.raised = TRUE]
             ELSE IF st.cells[n1] = "r" /\ st.cells[n2] = "r"
             THEN ecl_scan_unguarded(
                      [st EXCEPT !.cells[cell] = "b", !.changes = TRUE],
                      keys, order, mask, k + 1)
             ELSE IF st.cells[n1] = "b" /\ st.cells[n2] = "b"
             THEN ecl_scan_unguarded(
                      [st EXCEPT !.cells[cell] = "r", !.changes = TRUE],
                      keys, order, mask, k + 1)
             ELSE ecl_scan_unguarded(st, keys, order, mask, k + 1)

\* keys: the keys of the cells dictionary, which no propagator changes
RECURSIVE ecl_scan(_, _, _, _, _)
ecl_scan(st, keys, order, mask, k) ==
    IF k > Len(order) \/ st.raised THEN st
    ELSE LET cell == order[k]
             n1   == <<cell[1] + mask[1][1], cell[2] + mask[1][2]>>
             n2   == <<cell[1] + mask[2][1], cell[2] + mask[2][2]>>
         IN  IF st.cells[cell] \in {"r", "b"}
             THEN ecl_scan(st, keys, order, mask, k + 1)
             ELSE IF n1 \notin keys \/ n2 \notin keys
             THEN [st EXCEPT !.raised = TRUE]          \* KeyError
             ELSE IF st.cells[n1] = "r" /\ st.cells[n2] = "r"
             THEN ecl_scan([st EXCEPT !.cells[cell] = "b", !.changes = TRUE],
                           keys, order, mask, k + 1)
             ELSE IF st.cells[n1] = "b" /\ st.cells[n2] = "b"
             THEN ecl_scan([st EXCEPT !.cells[cell] = "r", !.changes = TRUE],
                           keys, order, mask, k + 1)
             ELSE ecl_scan(st, keys, order, mask, k + 1)

eliminate_contiguous_line(cells, rows, cols, mask) ==
    ecl_scan([cells |-> cells, changes |-> FALSE, raised |-> FALSE],
             DOMAIN cells, ScanOrder(rows, cols), mask, 1)

\* a mutant: the first scan runs over range(size - 1), one row too many
Scans_wide(size) ==
    << [rows |-> Range(0, size - 1), cols |-> Range(0, size),
        mask |-> << <<1, 0>>, <<2, 0>> >>],
       [rows |-> Range(2, size), cols |-> Range(0, size),
        mask |-> << <<-1, 0>>, <<-2, 0>> >>],
       [rows |-> Range(1, size - 1), cols |-> Range(0, size),
        mask |-> << <<1, 0>>, <<-1, 0>> >>],
       [rows |-> Range(0, size), cols |-> Range(0, size - 2),
        mask |-> << <<0, 1>>, <<0, 2>> >>],
       [rows |-> Range(0, size), cols |-> Range(2, size),
        mask |-> << <<0, -1>>, <<0, -2>> >>],
       [rows |-> Range(0, size), cols |-> Range(1, size - 1),
        mask |-> << <<0, 1>>, <<0, -1>> >>] >>

\* the six calls of eliminate_contiguous, in the order of the source
Scans(size) ==
    << [rows |-> Range(0, size - 2), cols |-> Range(0, size),
        mask |-> << <<1, 0>>, <<2, 0>> >>],
       [rows |-> Range(2, size), cols |-> Range(0, size),
        mask |-> << <<-1, 0>>, <<-2, 0>> >>],
       [rows |-> Range(1, size - 1), cols |-> Range(0, size),
        mask |-> << <<1, 0>>, <<-1, 0>> >>],
       [rows |-> Range(0, size), cols |-> Range(0, size - 2),
        mask |-> << <<0, 1>>, <<0, 2>> >>],
       [rows |-> Range(0, size), cols |-> Range(2, size),
        mask |-> << <<0, -1>>, <<0, -2>> >>],
       [rows |-> Range(0, size), cols |-> Range(1, size - 1),
        mask |-> << <<0, 1>>, <<0, -1>> >>] >>

\* a mutant: "changes = ..." in the place of "changes |= ...", the value
\* returned is that of the last scan
RECURSIVE ec_calls_last(_, _, _)
ec_calls_last(st, scans, k) ==
    IF k > Len(scans) \/ st.raised THEN st
    ELSE CHOOSE res \in
             {ec_calls_last([cells |-> r.cells,
                             changes |-> r.changes,
                             raised |-> r.raised], scans, k + 1) :
                 r \in {eliminate_contiguous_line(st.cells, scans[k].rows,
                                                  scans[k].cols,
                                                  scans[k].mask)}} : TRUE

RECURSIVE ec_calls(_, _, _)
ec_calls(st, scans, k) ==
    IF k > Len(scans) \/ st.raised THEN st
    ELSE CHOOSE out \in
             {ec_calls([cells |-> r.cells,
                        changes |-> st.changes \/ r.changes,
                        raised |-> r.raised], scans, k + 1) :
                 r \in {eliminate_contiguous_line(st.cells, scans[k].rows,
                                                  scans[k].cols,
                                                  scans[k].mask)}} : TRUE

eliminate_contiguous(size, cells) ==
    ec_calls([cells |-> cells, changes |-> FALSE, raised |-> FALSE],
             Scans(size), 1)

\* ------------------------------------------------------------------------
\* The balance propagator
\* ------------------------------------------------------------------------

\* The count of the cells of one colour in a line.  full_colour takes it
\* with len() of a generator expression, which Python refuses with a
\* TypeError ("object of type 'generator' has no len()"); the counting
\* "sum" is the one the design describes.
LineCount(counter, line, colour) ==
    IF counter = "len"
    THEN [raised |-> TRUE, n |-> 0]
    ELSE [raised |-> FALSE, n |-> CountOf(line, colour)]

\* rows 0 .. size-1, then columns 0 .. size-1
Lines(size) ==
    [k \in 1 .. 2 * size |->
        IF k <= size THEN <<"row", k - 1>> ELSE <<"col", k - size - 1>>]

LineCells(size, line) ==
    IF line[1] = "row" THEN {<<line[2], i>> : i \in 0 .. size - 1}
    ELSE {<<i, line[2]>> : i \in 0 .. size - 1}

LineOf(cells, size, line) ==
    IF line[1] = "row" THEN RowOf(cells, size, line[2])
    ELSE ColOf(cells, size, line[2])

\* a mutant: the test "if cells[(row, col)] == '.'" is left out
FillLine_all(st, size, line, new_colour) ==
    [cells |-> [c \in DOMAIN st.cells |->
                   IF c \in LineCells(size, line)
                   THEN new_colour ELSE st.cells[c]],
     changes |-> st.changes
                 \/ \E c \in LineCells(size, line) : st.cells[c] = ".",
     raised |-> FALSE]

\* "for col in range(size): if cells[(row, col)] == '.': ..." on one line
FillLine(st, size, line, new_colour) ==
    [cells |-> [c \in DOMAIN st.cells |->
                   IF c \in LineCells(size, line) /\ st.cells[c] = "."
                   THEN new_colour ELSE st.cells[c]],
     changes |-> st.changes
                 \/ \E c \in LineCells(size, line) : st.cells[c] = ".",
     raised |-> FALSE]

RECURSIVE fc_lines(_, _, _, _, _)
fc_lines(counter, st, size, lines, k) ==
    IF k > Len(lines) \/ st.raised THEN st
    ELSE LET line  == LineOf(st.cells, size, lines[k])
             reds  == LineCount(counter, line, "r")
             blues == LineCount(counter, line, "b")
             half  == size \div 2
         IN  IF reds.raised \/ blues.raised
             THEN [st EXCEPT !.raised = TRUE]           \* TypeError
             ELSE IF reds.n = half /\ blues.n = half
             THEN fc_lines(counter, st, size, lines, k + 1)
             ELSE IF reds.n = half
             THEN fc_lines(counter, FillLine(st, size, lines[k], "b"),
                           size, lines, k + 1)
             ELSE IF blues.n = half
             THEN fc_lines(counter, FillLine(st, size, lines[k], "r"),
                           size, lines, k + 1)
             ELSE fc_lines(counter, st, size, lines, k + 1)

\* full_colour as src/ohhi.py has it
full_colour(size, cells) ==
    fc_lines("len", [cells |-> cells, changes |-> FALSE, raised |-> FALSE],
             size, Lines(size), 1)

\* the balance propagator of the design (same loops, counting with sum)
balance(size, cells) ==
    fc_lines("sum", [cells |-> cells, changes |-> FALSE, raised |-> FALSE],
             size, Lines(size), 1)

\* ------------------------------------------------------------------------
\* evaluate_status
\* ------------------------------------------------------------------------

NoViolation == <<>>

\* "for pos in range(size - 2)": the positions at which a window of three
\* cells starts
Windows(size) == 0 .. size - 3

\* a mutant: the test "!= '.'" is left out
ThreeInARow_any(line, size) ==
    \E pos \in Windows(size) :
        /\ line[pos + 1] = line[pos + 2]
        /\ line[pos + 2] = line[pos + 3]

ThreeInARow(line, size) ==
    \E pos \in Windows(size) :
        /\ line[pos + 1] = line[pos + 2]
        /\ line[pos + 2] = line[pos + 3]
        /\ line[pos + 3] # "."

\* sum(1 for c1, c2 in zip(line, line2) if c1 == c2 == colour)
Same(line, line2, colour) ==
    Cardinality({i \in DOMAIN line : line[i] = colour /\ line2[i] = colour})

\* a mutant: a line counts as a duplicate only when it shares more than
\* size/2 cells of one colour
Duplicates_strict(cells, size, axis, i, other) ==
    LET line  == LineOf(cells, size, <<axis, i>>)
        line2 == LineOf(cells, size, <<axis, other>>)
    IN  \/ Same(line, line2, "r") > size \div 2
        \/ Same(line, line2, "b") > size \div 2

\* a mutant: the shared reds and the shared blues are counted together
Duplicates_sum(cells, size, axis, i, other) ==
    LET line  == LineOf(cells, size, <<axis, i>>)
        line2 == LineOf(cells, size, <<axis, other>>)
    IN  Same(line, line2, "r") + Same(line, line2, "b") >= size \div 2

Duplicates(cells, size, axis, i, other) ==
    LET line  == LineOf(cells, size, <<axis, i>>)
        line2 == LineOf(cells, size, <<axis, other>>)
    IN  \/ Same(line, line2, "r") >= size \div 2
        \/ Same(line, line2, "b") >= size \div 2

\* the checks made on one line, in the order of the source: the first
\* violation found, or NoViolation
LineViolation(cells, size, axis, i) ==
    LET line == LineOf(cells, size, <<axis, i>>)
        name == IF axis = "col" THEN "column" ELSE "row"
        dups == {o \in i + 1 .. size - 1 : Duplicates(cells, size, axis, i, o)}
    IN  IF CountOf(line, "r") > size \div 2
        THEN <<"too many reds", name, i>>
        ELSE IF CountOf(line, "b") > size \div 2
        THEN <<"too many blues", name, i>>
        ELSE IF ThreeInARow(line, size)
        THEN <<"three in a row", name, i>>
        ELSE IF dups # {}
        THEN <<"duplicate", name, i, CHOOSE o \in dups : \A p \in dups : o <= p>>
        ELSE NoViolation

\* a mutant: each index is checked as a row first, then as a column
RECURSIVE FirstViolation_row_first(_, _, _)
FirstViolation_row_first(cells, size, i) ==
    IF i >= size THEN NoViolation
    ELSE IF LineViolation(cells, size, "row", i) # NoViolation
    THEN LineViolation(cells, size, "row", i)
    ELSE IF LineViolation(cells, size, "col", i) # NoViolation
    THEN LineViolation(cells, size, "col", i)
    ELSE FirstViolation_row_first(cells, size, i + 1)

\* "for row_or_col in range(size)": the column, then the row
RECURSIVE FirstViolation(_, _, _)
FirstViolation(cells, size, i) ==
    IF i >= size THEN NoViolation
    ELSE IF LineViolation(cells, size, "col", i) # NoViolation
    THEN LineViolation(cells, size, "col", i)
    ELSE IF LineViolation(cells, size, "row", i) # NoViolation
    THEN LineViolation(cells, size, "row", i)
    ELSE FirstViolation(cells, size, i + 1)

\* a mutant: a fully set grid without a violation is not marked 'solved'
evaluate_status_unmarked(size, cells, state) ==
    IF FirstViolation(cells, size, 0) # NoViolation THEN "infeasible"
    ELSE state

\* the value evaluate_status leaves in problem['state'], given the one
\* it finds there
evaluate_status(size, cells, state) ==
    IF FirstViolation(cells, size, 0) # NoViolation THEN "infeasible"
    ELSE IF solved(cells) THEN "solved"
    ELSE state

\* ------------------------------------------------------------------------
\* Branching
\* ------------------------------------------------------------------------

None == <<-1, -1>>

\* get_undecided_cell: the first undecided cell in row-major order; a
\* function that falls off its end returns None
get_undecided_cell(size, cells) ==
    LET und == {c \in Coords(size) : cells[c] = "."}
    IN  IF und = {} THEN None
        ELSE CHOOSE c \in und :
                \A d \in und : c[1] < d[1] \/ (c[1] = d[1] /\ c[2] <= d[2])

\* ------------------------------------------------------------------------
\* The heap.  dicts[d] is a cells dictionary; probs[p] is a problem
\* dictionary, holding the reference probs[p].cells to its cells and its
\* state ('size' is never written and is kept in the variable size).
\* ------------------------------------------------------------------------

\* choose(problem, row, col, colour): problem.copy() is a new problem
\* dictionary with the same fields; its 'cells' is then replaced by a copy
\* of the cells dictionary, in which the cell is set.
choose(heap, p, cell, colour) ==
    [dicts |-> Append(heap.dicts,
                      [heap.dicts[heap.probs[p].cells] EXCEPT ![cell] = colour]),
     probs |-> Append(heap.probs,
                      [cells |-> Len(heap.dicts) + 1,
                       state |-> heap.probs[p].state])]

\* a mutant: the new problem does not take its state from the old one, it
\* is made with the state 'solved'
fix_variable_state(heap, p, pivot, value) ==
    [dicts |-> Append(heap.dicts,
                      [heap.dicts[heap.probs[p].cells] EXCEPT ![pivot] = value]),
     probs |-> Append(heap.probs,
                      [cells |-> Len(heap.dicts) + 1, state |-> "solved"])]

\* a mutant: the 'variables' dictionary is not copied, the new problem
\* shares it with the old one
fix_variable_shared(heap, p, pivot, value) ==
    [dicts |-> [heap.dicts EXCEPT ![heap.probs[p].cells][pivot] = value],
     probs |-> Append(heap.probs,
                      [cells |-> heap.probs[p].cells,
                       state |-> heap.probs[p].state])]

\* fix_variable(problem, pivot, value) of cp_solver: the same copy, of the
\* 'variables' dictionary
fix_variable(heap, p, pivot, value) ==
    [dicts |-> Append(heap.dicts,
                      [heap.dicts[heap.probs[p].cells] EXCEPT ![pivot] = value]),
     probs |-> Append(heap.probs,
                      [cells |-> Len(heap.dicts) + 1,
                       state |-> heap.probs[p].state])]

\* The domain of a variable of cp_solver: an undecided cell holds both
\* colours, in the order "rb"; a decided one holds its colour.
DomainOf(v) == IF v = "." THEN <<"r", "b">> ELSE <<v>>

\* get_undecided_variable: the first variable, in the order of the
\* dictionary (row-major, as the grid is read), whose domain holds more
\* than one value
get_undecided_variable(size, variables) ==
    LET und == {c \in Coords(size) : Len(DomainOf(variables[c])) > 1}
    IN  IF und = {} THEN None
        ELSE CHOOSE c \in und :
                \A d \in und : c[1] < d[1] \/ (c[1] = d[1] /\ c[2] <= d[2])

\* ------------------------------------------------------------------------
\* The propagation drivers.  A frame is one activation of solve; while it
\* is in the driver, i is the propagator to invoke next and changes is the
\* driver's flag.  Each step operator gives the frame after one propagator
\* has returned `changed`; n is the number of propagators.
\* ------------------------------------------------------------------------

\* constraint_propagation of ohhi.py: changes |= ... for each propagator
constraint_propagation_step(fr, changed, n) ==
    [fr EXCEPT !.changes = fr.changes \/ changed,
               !.i = fr.i + 1,
               !.pc = IF fr.i = n THEN "loop" ELSE "cycle"]

\* a mutant: changes = all(...), which stops at the first propagator that
\* returns False
propagate_constraints_step_all(fr, changed, n) ==
    IF ~changed
    THEN [fr EXCEPT !.changes = FALSE, !.pc = "loop"]
    ELSE IF fr.i = n
    THEN [fr EXCEPT !.changes = TRUE, !.pc = "loop"]
    ELSE [fr EXCEPT !.i = fr.i + 1]

\* a mutant: every propagator is invoked and the flag is the value the
\* last one returned
propagate_constraints_step_last(fr, changed, n) ==
    IF fr.i = n
    THEN [fr EXCEPT !.changes = changed, !.pc = "loop"]
    ELSE [fr EXCEPT !.i = fr.i + 1]

\* propagate_constraints of cp_solver.py: changes = any(...) stops at the
\* first propagator that returns True
propagate_constraints_step(fr, changed, n) ==
    IF changed
    THEN [fr EXCEPT !.changes = TRUE, !.pc = "loop"]
    ELSE IF fr.i = n
    THEN [fr EXCEPT !.changes = FALSE, !.pc = "loop"]
    ELSE [fr EXCEPT !.i = fr.i + 1]

\* "while changes:" taken.  constraint_propagation clears the flag at the
\* top of the cycle; propagate_constraints assigns it when any() returns.
begin_cycle(im, fr) ==
    [fr EXCEPT !.pc = "cycle", !.i = 1,
               !.changes = IF im = "ohhi" THEN FALSE ELSE fr.changes]

\* the propagators each driver is run with
Constraints(im) ==
    IF im = "ohhi" THEN <<"eliminate_contiguous", "full_colour">>
    ELSE <<"eliminate_contiguous", "balance">>

Apply(name, size, cells) ==
    IF name = "eliminate_contiguous" THEN eliminate_contiguous(size, cells)
    ELSE IF name = "full_colour" THEN full_colour(size, cells)
    ELSE balance(size, cells)

\* ------------------------------------------------------------------------
\* solve.  After a candidate's call has returned cand (a problem whose
\* state is candState), the caller's frame either returns or goes on to
\* its next candidate.
\* ------------------------------------------------------------------------

\* ohhi.py: the red branch, then the blue branch, whose result is returned
\* whatever it is
solve_ohhi_resume(fr, cand, candState) ==
    IF fr.k = 1 /\ candState # "solved"
    THEN [fr EXCEPT !.k = 2, !.pc = "branch"]
    ELSE [fr EXCEPT !.pc = "ret", !.rv = cand]

\* a mutant: the loop is not left on 'solved', every value is tried
solve_cp_resume_all(fr, cand, candState) ==
    IF fr.k < Len(fr.domain)
    THEN [fr EXCEPT !.k = fr.k + 1, !.pc = "branch"]
    ELSE [fr EXCEPT !.pc = "ret", !.rv = cand]

\* cp_solver.py: "for value in domain", leaving the loop on 'solved';
\* after the loop the last candidate's result is returned
solve_cp_resume(fr, cand, candState) ==
    IF candState # "solved" /\ fr.k < Len(fr.domain)
    THEN [fr EXCEPT !.k = fr.k + 1, !.pc = "branch"]
    ELSE [fr EXCEPT !.pc = "ret", !.rv = cand]

\* ------------------------------------------------------------------------
\* A whole run of a driver on a grid, with the propagators `names` in that
\* order: the grid it ends with, whether it raised, and its cycles.
\* ------------------------------------------------------------------------

DriverFrame ==
    [pc |-> "loop", changes |-> TRUE, i |-> 1, cycles |-> 0]

RECURSIVE Drive(_, _, _, _, _)
Drive(im, names, n, cells, fr) ==
    IF fr.pc = "loop"
    THEN IF fr.changes
         THEN Drive(im, names, n, cells, begin_cycle(im, fr))
         ELSE [cells |-> cells, raised |-> FALSE, cycles |-> fr.cycles]
    ELSE CHOOSE out \in
             {IF r.raised
              THEN [cells |-> r.cells, raised |-> TRUE, cycles |-> fr.cycles]
              ELSE LET done == IF im = "ohhi"
                               THEN constraint_propagation_step(
                                        fr, r.changes, Len(names))
                               ELSE propagate_constraints_step(
                                        fr, r.changes, Len(names))
                   IN  Drive(im, names, n, r.cells,
                             [done EXCEPT !.cycles = IF done.pc = "loop"
                                                     THEN fr.cycles + 1
                                                     ELSE fr.cycles]) :
                 r \in {Apply(names[fr.i], n, cells)}} : TRUE

\* ------------------------------------------------------------------------
\* Inputs
\* ------------------------------------------------------------------------

\* grid sizes read from a file
Sizes == {0, 1, 2, 3, 4}

\* the largest number of cells an input grid has set
MaxClues == 2

RECURSIVE UpTo(_, _)
UpTo(S, k) ==
    IF k = 0 THEN {{}}
    ELSE UpTo(S, k - 1) \cup {T \cup {x} : T \in UpTo(S, k - 1), x \in S}

\* the grids of one size with at most k cells set
Sparse(n, k) ==
    UNION {{[c \in Coords(n) |-> IF c \in T THEN f[c] ELSE "."] :
               f \in [T -> {"r", "b"}]} : T \in UpTo(Coords(n), k)}

\* a grid written as its rows
Grid(rows) == [c \in Coords(Len(rows)) |-> rows[c[1] + 1][c[2] + 1]]

\* the example of the design; a grid whose first and third row force a
\* duplicate; a grid in which one cell is forced to both colours; a 6x6
\* grid without a completion that the search must branch on; the empty
\* 6x6 grid
Examples ==
    { Grid(<< <<"r", ".", ".", "b">>,
              <<".", ".", "r", ".">>,
              <<"b", ".", ".", ".">>,
              <<".", ".", ".", "r">> >>),
      Grid(<< <<"r", "r", "b", "b">>,
              <<".", ".", ".", ".">>,
              <<"r", "r", ".", ".">>,
              <<".", ".", ".", ".">> >>),
      Grid(<< <<"r", "r", ".", ".">>,
              <<".", ".", "b", ".">>,
              <<".", ".", "b", ".">>,
              <<".", ".", ".", ".">> >>),
      Grid(<< <<".", ".", ".", ".", "r", "r">>,
              <<"b", ".", ".", ".", ".", ".">>,
              <<".", ".", ".", ".", ".", ".">>,
              <<".", "b", ".", ".", ".", ".">>,
              <<".", ".", ".", ".", "b", ".">>,
              <<"b", ".", "r", ".", ".", "r">> >>),
      [c \in Coords(6) |-> "."] }

Inputs == (UNION {Sparse(n, MaxClues) : n \in Sizes}) \cup Examples

\* every grid of the sizes up to 3, and every fully set grid of size 4
AllGrids(n) == [Coords(n) -> {"r", "b", "."}]

SetGrids(n) == [Coords(n) -> {"r", "b"}]

SmallGrids == AllGrids(0) \cup AllGrids(1) \cup AllGrids(2) \cup AllGrids(3)

\* the cells of two rows, or of two columns, of a 4x4 grid, and the grid
\* that is set as f on the cells T and undecided elsewhere
PairCells ==
    {{c \in Coords(4) : c[k] \in {i, j}} :
        k \in {1, 2}, i \in 0 .. 3, j \in 0 .. 3}

Partial(T, f) == [c \in Coords(4) |-> IF c \in T THEN f[c] ELSE "."]

SizeOf(g) == CHOOSE n \in 0 .. 6 : DOMAIN g = Coords(n)

\* ------------------------------------------------------------------------
\* The state machine
\* ------------------------------------------------------------------------

VARIABLES
    impl,       \* "ohhi": solve of ohhi.py; "cp": solve of cp_solver.py
    size,       \* problem['size']
    input,      \* the grid as it was read
    dicts,      \* the heap of cells dictionaries
    probs,      \* the heap of problem dictionaries
    stack,      \* the activations of solve, the innermost last
    halt,       \* "running", "returned" or "raised"
    result,     \* the problem the outermost solve returned (0: none yet)
    trace,      \* the choices printed by choose / fix_variable
    invoked,    \* history: the cycles of the innermost activation's
                \* driver, each the sequence of the propagators invoked in
                \* it, with the value each returned
    final,      \* history: the grid of each problem as it was when the
                \* call of solve on it returned
    out         \* what evaluate_status has printed with report=True

vars == <<impl, size, input, dicts, probs, stack, halt, result, trace, invoked,
          final, out>>

Frame(p) ==
    [prob |-> p, pc |-> "loop", changes |-> TRUE, i |-> 1, cycles |-> 0,
     pivot |-> None, domain |-> <<>>, k |-> 0, rv |-> 0,
     snap |-> <<>>]     \* history: the grid as the driver left it

Top == stack[Len(stack)]

SetTop(fr) == [stack EXCEPT ![Len(stack)] = fr]

Grid0(p) == dicts[probs[p].cells]

\* solve(problem) is called on the grid g, as it was read
InitWith(im, g, pc) ==
    /\ impl = im
    /\ size = SizeOf(g)
    /\ input = g
    /\ dicts = <<g>>
    /\ probs = <<[cells |-> 1, state |-> "unsolved"]>>
    /\ stack = <<[Frame(1) EXCEPT !.pc = pc]>>
    /\ halt = "running"
    /\ result = 0
    /\ trace = <<>>
    /\ invoked = <<>>
    /\ final = <<>>
    /\ out = <<>>

Init == \E im \in {"ohhi", "cp"}, g \in Inputs : InitWith(im, g, "loop")

Running == halt = "running" /\ Len(stack) > 0

\* "while changes:" taken: a cycle begins
BeginCycle ==
    /\ Running
    /\ Top.pc = "loop"
    /\ Top.changes
    /\ stack' = SetTop(begin_cycle(impl, Top))
    /\ invoked' = Append(invoked, <<>>)
    /\ UNCHANGED <<impl, size, input, dicts, probs, halt, result, trace, final,
                   out>>

\* the next propagator of the cycle is invoked on the problem
Invoke ==
    /\ Running
    /\ Top.pc = "cycle"
    /\ \E r \in {Apply(Constraints(impl)[Top.i], size,
                        dicts[probs[Top.prob].cells])} :
       LET d    == probs[Top.prob].cells
           name == Constraints(impl)[Top.i]
           n    == Len(Constraints(impl))
           done == IF impl = "ohhi"
                   THEN constraint_propagation_step(Top, r.changes, n)
                   ELSE propagate_constraints_step(Top, r.changes, n)
       IN  /\ dicts' = [dicts EXCEPT ![d] = r.cells]
           /\ invoked' = [invoked EXCEPT ![Len(invoked)] =
                             Append(@, [name |-> name, changed |-> r.changes,
                                        raised |-> r.raised])]
           /\ halt' = IF r.raised THEN "raised" ELSE halt
           /\ stack' = IF r.raised THEN stack
                       ELSE SetTop([done EXCEPT
                                !.cycles = IF done.pc = "loop"
                                           THEN Top.cycles + 1 ELSE Top.cycles])
    /\ UNCHANGED <<impl, size, input, probs, result, trace, final, out>>

\* "while changes:" not taken: the driver returns
DriverReturn ==
    /\ Running
    /\ Top.pc = "loop"
    /\ ~Top.changes
    /\ stack' = SetTop([Top EXCEPT !.pc = "eval"])
    /\ UNCHANGED <<impl, size, input, dicts, probs, halt, result, trace, invoked,
                   final, out>>

\* evaluate_status, the test of the state, and the choice of the pivot
Evaluate ==
    /\ Running
    /\ Top.pc = "eval"
    /\ \E st \in {evaluate_status(size, dicts[probs[Top.prob].cells],
                                    probs[Top.prob].state)} :
       LET p     == Top.prob
           cells == dicts[probs[p].cells]
           pivot == IF impl = "ohhi" THEN get_undecided_cell(size, cells)
                    ELSE get_undecided_variable(size, cells)
       IN  /\ probs' = [probs EXCEPT ![p].state = st]
           /\ IF st \in {"solved", "infeasible"}
              THEN /\ stack' = SetTop([Top EXCEPT !.pc = "ret", !.rv = p,
                                                    !.snap = cells])
                   /\ halt' = halt
              ELSE IF pivot = None
              THEN /\ stack' = stack        \* unpacking None: TypeError
                   /\ halt' = "raised"
              ELSE /\ stack' = SetTop([Top EXCEPT
                                !.pc = "branch", !.pivot = pivot, !.k = 1,
                                !.snap = cells,
                                !.domain = IF impl = "ohhi" THEN <<"r", "b">>
                                           ELSE DomainOf(cells[pivot])])
                   /\ halt' = halt
    /\ UNCHANGED <<impl, size, input, dicts, result, trace, invoked, final,
                   out>>

\* the next candidate: a new problem is made and solve is called on it
Branch ==
    /\ Running
    /\ Top.pc = "branch"
    /\ \E new \in {IF impl = "ohhi"
                     THEN choose([dicts |-> dicts, probs |-> probs],
                                 Top.prob, Top.pivot, Top.domain[Top.k])
                     ELSE fix_variable([dicts |-> dicts, probs |-> probs],
                                       Top.prob, Top.pivot, Top.domain[Top.k])} :
           /\ dicts' = new.dicts
           /\ probs' = new.probs
           /\ stack' = Append(SetTop([Top EXCEPT !.pc = "wait"]),
                              Frame(Len(new.probs)))
           /\ trace' = Append(trace, <<Top.pivot, Top.domain[Top.k]>>)
    /\ invoked' = <<>>
    /\ UNCHANGED <<impl, size, input, halt, result, final, out>>

\* solve returns the problem rv to its caller
Return ==
    /\ Running
    /\ Top.pc = "ret"
    /\ IF Len(stack) = 1
       THEN /\ stack' = <<>>
            /\ halt' = "returned"
            /\ result' = Top.rv
       ELSE /\ LET caller == stack[Len(stack) - 1]
                   cand   == Top.rv
                   resume == IF impl = "ohhi"
                             THEN solve_ohhi_resume(caller, cand, probs[cand].state)
                             ELSE solve_cp_resume(caller, cand, probs[cand].state)
               IN  stack' = [SubSeq(stack, 1, Len(stack) - 1)
                                EXCEPT ![Len(stack) - 1] = resume]
            /\ UNCHANGED <<halt, result>>
    /\ final' = (Top.prob :> dicts[probs[Top.prob].cells]) @@ final
    /\ UNCHANGED <<impl, size, input, dicts, probs, trace, invoked, out>>

\* main, after solve has returned solution: "if solution['state'] ==
\* 'infeasible': evaluate_status(solution, report=True)", which prints the
\* first violation it finds and assigns the state again
Report ==
    /\ halt = "returned"
    /\ probs[result].state = "infeasible"
    /\ \E v \in {FirstViolation(Grid0(result), size, 0)} :
          /\ out' = IF v = NoViolation THEN out ELSE Append(out, v)
          /\ probs' = [probs EXCEPT ![result].state =
                          evaluate_status(size, Grid0(result), @)]
    /\ halt' = "exited"
    /\ UNCHANGED <<impl, size, input, dicts, stack, result, trace, invoked,
                   final>>

Next ==
    BeginCycle \/ Invoke \/ DriverReturn \/ Evaluate \/ Branch \/ Return
        \/ Report

\* solve, called on the grids read from a file
Spec == Init /\ [][Next]_vars

\* a propagation driver, called on any small grid
InitProp ==
    \E im \in {"ohhi", "cp"}, g \in SmallGrids \cup Inputs :
        InitWith(im, g, "loop")

NextProp == BeginCycle \/ Invoke \/ DriverReturn

SpecProp == InitProp /\ [][NextProp]_vars

\* evaluate_status, called on any small grid and any fully set 4x4 grid
InitEval ==
    \E g \in SmallGrids \cup SetGrids(4) \cup Inputs : InitWith("ohhi", g, "eval")

NextEval == Evaluate \/ Return \/ Report

SpecEval == InitEval /\ [][NextEval]_vars

\* evaluate_status on the partial grids of the even sizes
InitPrune ==
    \/ \E g \in AllGrids(0) \cup AllGrids(2)
                  \cup {e \in Examples : SizeOf(e) = 4} :
          InitWith("ohhi", g, "eval")
    \/ \E T \in PairCells : \E f \in [T -> {"r", "b", "."}] :
          InitWith("ohhi", Partial(T, f), "eval")

SpecPrune == InitPrune /\ [][NextEval]_vars

\* ------------------------------------------------------------------------
\* The rules of the puzzle, stated on a grid g of n rows and n columns
\* ------------------------------------------------------------------------

Complete(g) == \A c \in DOMAIN g : g[c] \in {"r", "b"}

\* every row and every column has exactly n/2 reds and n/2 blues
Balanced(g, n) ==
    \A i \in 0 .. n - 1 : \A colour \in {"r", "b"} :
        /\ Cardinality({j \in 0 .. n - 1 : g[<<i, j>>] = colour}) = n \div 2
        /\ Cardinality({j \in 0 .. n - 1 : g[<<j, i>>] = colour}) = n \div 2

\* no line holds three consecutive equal decided cells
NoTriple(g, n) ==
    \A i \in 0 .. n - 1 : \A j \in 0 .. n - 3 : \A colour \in {"r", "b"} :
        /\ ~(g[<<i, j>>] = colour /\ g[<<i, j + 1>>] = colour
                                  /\ g[<<i, j + 2>>] = colour)
        /\ ~(g[<<j, i>>] = colour /\ g[<<j + 1, i>>] = colour
                                  /\ g[<<j + 2, i>>] = colour)

\* no two rows, and no two columns, share n/2 or more matching decided
\* cells of one colour
NoDuplicate(g, n) ==
    \A i \in 0 .. n - 1 : \A k \in i + 1 .. n - 1 : \A colour \in {"r", "b"} :
        /\ Cardinality({j \in 0 .. n - 1 :
               g[<<i, j>>] = colour /\ g[<<k, j>>] = colour}) < n \div 2
        /\ Cardinality({j \in 0 .. n - 1 :
               g[<<j, i>>] = colour /\ g[<<j, k>>] = colour}) < n \div 2

ValidGrid(g, n) ==
    Complete(g) /\ Balanced(g, n) /\ NoTriple(g, n) /\ NoDuplicate(g, n)

\* s sets every cell that g sets, to the same colour
Extends(s, g) == \A c \in DOMAIN g : g[c] # "." => s[c] = g[c]

\* every valid grid of n rows: its rows are balanced, so it is among the
\* grids made of balanced rows
BalancedRows(n) ==
    {row \in [0 .. n - 1 -> {"r", "b"}] :
        \A colour \in {"r", "b"} :
            Cardinality({j \in 0 .. n - 1 : row[j] = colour}) = n \div 2}

Solutions(n) ==
    {g \in {[c \in Coords(n) |-> rows[c[1]][c[2]]] :
               rows \in [0 .. n - 1 -> BalancedRows(n)]} : ValidGrid(g, n)}

AllSolutions == [n \in Sizes |-> Solutions(n)]

\* g, of a size in Sizes, has a completion that satisfies the rules
Satisfiable(g, n) == \E s \in AllSolutions[n] : Extends(s, g)

\* ------------------------------------------------------------------------
\* C1.  Completeness: for every 4x4 input grid that has a completion
\* satisfying the rules, solve returns a problem whose state is 'solved'
\* and whose grid is fully decided and satisfies the rules.
\* Refuted: solve of ohhi.py ends in the TypeError that full_colour raises.
\* ------------------------------------------------------------------------
C1_Completeness ==
    (halt # "running" /\ size = 4 /\ Satisfiable(input, 4))
        => /\ halt = "returned"
           /\ probs[result].state = "solved"
           /\ ValidGrid(Grid0(result), 4)

\* ------------------------------------------------------------------------
\* C2.  Soundness of 'solved': whenever evaluate_status has set a problem's
\* state to 'solved', every row and column of its grid has exactly size/2
\* reds and size/2 blues, no line holds three consecutive equal decided
\* cells, and no two rows and no two columns share size/2 or more matching
\* decided cells of one colour.
\* ------------------------------------------------------------------------
C2_SolvedIsValid ==
    \A p \in DOMAIN probs :
        probs[p].state = "solved"
            => /\ Balanced(Grid0(p), size)
               /\ NoTriple(Grid0(p), size)
               /\ NoDuplicate(Grid0(p), size)

\* evaluate_status has set the state of a 4x4 grid to 'solved'
C2_Witness ==
    /\ size = 4
    /\ Len(stack) = 1
    /\ Top.pc = "ret"
    /\ probs[1].state = "solved"

Undecided(g) == Cardinality({c \in DOMAIN g : g[c] = "."})

\* ------------------------------------------------------------------------
\* C3.  Termination: solve runs to its return: no propagation loop is left
\* otherwise than by a cycle without change, every branched problem has
\* strictly fewer undecided cells than the problem it was branched from,
\* and the recursion is never deeper than size*size.
\* Refuted: the first propagation loop of solve of ohhi.py is left by the
\* TypeError of full_colour.
\* ------------------------------------------------------------------------
C3_Termination ==
    /\ halt # "raised"
    /\ \A k \in 2 .. Len(stack) :
          Undecided(Grid0(stack[k].prob)) < Undecided(Grid0(stack[k - 1].prob))
    /\ Len(stack) - 1 <= size * size

\* ------------------------------------------------------------------------
\* C4.  Every call of solve returns a problem whose state is 'solved' or
\* 'infeasible'; a call none of whose candidates led to 'solved' returns
\* the result of its last candidate, which is 'infeasible'; an input
\* without a valid completion yields 'infeasible'.
\* Refuted: solve of ohhi.py raises instead of returning.
\* ------------------------------------------------------------------------
C4_ReturnsTerminal ==
    /\ halt # "running"
          => /\ halt = "returned"
             /\ probs[result].state \in {"solved", "infeasible"}
             /\ (size \in Sizes /\ ~Satisfiable(input, size))
                   => probs[result].state = "infeasible"
    /\ \A k \in 1 .. Len(stack) :
          stack[k].pc = "ret"
             => /\ probs[stack[k].rv].state \in {"solved", "infeasible"}
                /\ (stack[k].k > 0 /\ probs[stack[k].rv].state # "solved")
                      => /\ stack[k].k = Len(stack[k].domain)
                         /\ probs[stack[k].rv].state = "infeasible"

\* ------------------------------------------------------------------------
\* C6.  Branch isolation.  choose and fix_variable return a new problem
\* with a cells dictionary of its own, equal to the parent's but for the
\* pivot, and leave every existing problem as it was; while a call of
\* solve waits for its candidates, its problem keeps the grid the driver
\* left and its state; a candidate starts from that grid with only the
\* pivot changed; and the grid of a problem whose call has returned is
\* not changed by anything done later.
\* ------------------------------------------------------------------------
Heap == [dicts |-> dicts, probs |-> probs]

\* new is heap with one more problem, made from p by setting cell
Branched(heap, new, p, cell, colour) ==
    /\ Len(new.probs) = Len(heap.probs) + 1
    /\ \A q \in DOMAIN heap.probs :
          /\ new.probs[q] = heap.probs[q]
          /\ new.dicts[new.probs[q].cells] = heap.dicts[heap.probs[q].cells]
          /\ new.probs[Len(new.probs)].cells # heap.probs[q].cells
    /\ new.dicts[new.probs[Len(new.probs)].cells]
          = [heap.dicts[heap.probs[p].cells] EXCEPT ![cell] = colour]
    /\ new.probs[Len(new.probs)].state = heap.probs[p].state

Admissible(v) == IF v = "." THEN {"r", "b"} ELSE {v}

Narrowed(before, after) ==
    /\ DOMAIN after = DOMAIN before
    /\ \A c \in DOMAIN before :
          /\ after[c] \in {".", "r", "b"}
          /\ Admissible(after[c]) \subseteq Admissible(before[c])

C7_MonotonicNarrowing ==
    /\ (Len(stack) > 0 /\ impl = "ohhi" /\ Top.pc = "loop" /\ Top.cycles = 0)
          => \A name \in {"eliminate_contiguous", "full_colour", "balance"} :
                Narrowed(Grid0(Top.prob),
                         Apply(name, size, Grid0(Top.prob)).cells)
    /\ (Len(stack) > 0 /\ Top.pc = "cycle")
          => Narrowed(Grid0(Top.prob),
                      Apply(Constraints(impl)[Top.i], size,
                            Grid0(Top.prob)).cells)

\* a propagator has written cells of a grid that had decided cells, and the
\* grid it left is one on which both propagators write again
C7_Witness ==
    /\ Len(stack) > 0
    /\ Len(invoked) > 0
    /\ \E i \in DOMAIN invoked[Len(invoked)] : invoked[Len(invoked)][i].changed
    /\ \E c \in DOMAIN input : input[c] # "."
    /\ eliminate_contiguous(size, Grid0(Top.prob)).changes
    /\ balance(size, Grid0(Top.prob)).changes

\* ------------------------------------------------------------------------
\* C8.  Idempotence at the fixpoint.  When a propagation driver has
\* returned, each of its propagators, invoked once more on the grid the
\* driver left, returns False and leaves the grid as it is.  The driver
\* of ohhi.py is also run to its end on each grid it starts on, with the
\* balance propagator in the place of full_colour.
\* ------------------------------------------------------------------------
Fixpoint(names, n, cells) ==
    \A i \in DOMAIN names :
        LET r == Apply(names[i], n, cells)
        IN  ~r.raised /\ ~r.changes /\ r.cells = cells

DesignConstraints == <<"eliminate_contiguous", "balance">>

Reversed(names) == [i \in DOMAIN names |-> names[Len(names) + 1 - i]]

Names(cycle) == [i \in DOMAIN cycle |-> cycle[i].name]

AnyChange(cycle) == \E i \in DOMAIN cycle : cycle[i].changed

InDriver == Len(stack) > 0 /\ Top.pc \in {"loop", "cycle", "eval"}

\* the cycles that have run to their end
Completed ==
    IF Top.pc = "cycle" \/ halt = "raised"
    THEN SubSeq(invoked, 1, Len(invoked) - 1)
    ELSE invoked

IsPrefix(s, t) == Len(s) <= Len(t) /\ s = SubSeq(t, 1, Len(s))

States == {"unsolved", "solved", "infeasible"}

Axes == {"row", "col"}

\* cell j of line i of an axis
CellAt(g, axis, i, j) == IF axis = "row" THEN g[<<i, j>>] ELSE g[<<j, i>>]

TooMany(g, n, axis, i, colour) ==
    Cardinality({j \in 0 .. n - 1 : CellAt(g, axis, i, j) = colour}) > n \div 2

Triple(g, n, axis, i) ==
    \E j \in 0 .. n - 3 : \E colour \in {"r", "b"} :
        /\ CellAt(g, axis, i, j) = colour
        /\ CellAt(g, axis, i, j + 1) = colour
        /\ CellAt(g, axis, i, j + 2) = colour

Shares(g, n, axis, i, o, colour) ==
    Cardinality({j \in 0 .. n - 1 : /\ CellAt(g, axis, i, j) = colour
                                    /\ CellAt(g, axis, o, j) = colour})
        >= n \div 2

RuleViolated(g, n) ==
    \E axis \in Axes : \E i \in 0 .. n - 1 :
        \/ TooMany(g, n, axis, i, "r")
        \/ TooMany(g, n, axis, i, "b")
        \/ Triple(g, n, axis, i)
        \/ \E o \in (0 .. n - 1) \ {i} : \E colour \in {"r", "b"} :
              Shares(g, n, axis, i, o, colour)

Classification(violated, complete, state) ==
    IF violated THEN "infeasible"
    ELSE IF complete THEN "solved"
    ELSE state

Classify(g, n, state) == Classification(RuleViolated(g, n), Complete(g), state)

BeingEvaluated == Len(stack) > 0 /\ Top.pc = "eval"

\* C11: evaluate_status, called on any grid with any state in the field,
\* leaves 'infeasible' exactly when a rule is violated, 'solved' when none
\* is and every cell is decided, and the state it found otherwise; the
\* call made by solve on a problem in state 'unsolved' leaves that
\* classification in the problem, and the grid is never changed.
C11_EvaluatorClassification ==
    /\ \A p \in DOMAIN probs : Grid0(p) = input
    /\ BeingEvaluated
          => \E violated \in {RuleViolated(Grid0(Top.prob), size)} :
                \A s \in States :
                    evaluate_status(size, Grid0(Top.prob), s)
                        = Classification(violated, Complete(Grid0(Top.prob)), s)
    /\ ~BeingEvaluated
          => probs[1].state = Classify(input, size, "unsolved")

\* evaluate_status has rejected a 4x4 grid with undecided cells for two
\* lines that share two cells of a colour, no other rule being violated
C11_Witness ==
    /\ ~BeingEvaluated
    /\ size = 4
    /\ probs[1].state = "infeasible"
    /\ ~Complete(input)
    /\ \A axis \in Axes : \A i \in 0 .. 3 :
          /\ ~TooMany(input, 4, axis, i, "r")
          /\ ~TooMany(input, 4, axis, i, "b")
          /\ ~Triple(input, 4, axis, i)

\* ------------------------------------------------------------------------
\* C12.  Evaluator rule order.  The rules are numbered 1 (too many reds),
\* 2 (too many blues), 3 (three in a row), 4 (duplicate of a later line of
\* the axis).
\* ------------------------------------------------------------------------
Rules == 1 .. 4

Broken(g, n, axis, i, k) ==
    IF k = 1 THEN TooMany(g, n, axis, i, "r")
    ELSE IF k = 2 THEN TooMany(g, n, axis, i, "b")
    ELSE IF k = 3 THEN Triple(g, n, axis, i)
    ELSE \E o \in i + 1 .. n - 1 : \E colour \in {"r", "b"} :
            Shares(g, n, axis, i, o, colour)

\* the rule a printed line names
RuleOf(msg) ==
    IF msg[1] = "too many reds" THEN 1
    ELSE IF msg[1] = "too many blues" THEN 2
    ELSE IF msg[1] = "three in a row" THEN 3
    ELSE 4

AxisOf(msg) == IF msg[2] = "column" THEN "col" ELSE "row"

\* the place of a line in the scan: column 0, row 0, column 1, row 1, ...
ScanPlace(axis, i) == 2 * i + (IF axis = "col" THEN 0 ELSE 1)

Reported == halt = "exited"

\* C12 as stated: of the rules the grid violates, on whatever lines, the
\* one reported with report=True is the first in the order 1, 2, 3, 4.
C12_EarliestRuleOfGrid ==
    Reported
        => /\ Len(out) = 1
           /\ probs[result].state = "infeasible"
           /\ \A axis \in Axes : \A i \in 0 .. size - 1 : \A k \in Rules :
                 Broken(Grid0(result), size, axis, i, k) => RuleOf(out[1]) <= k

\* C12 (amended): evaluate_status scans the lines in the order column 0,
\* row 0, column 1, row 1, ... and applies the four rules in their order to
\* each line before it goes on to the next; with report=True it prints one
\* violation, the first in that order of lines and, within the line, of
\* rules (for a duplicate, with the first later line that duplicates it),
\* and sets the state to 'infeasible'; so a violation of a later rule on
\* an earlier line is reported before one of an earlier rule on a later
\* line.  With report=False nothing is printed.
C12_RuleOrder ==
    /\ ~Reported => out = <<>>
    /\ Reported
          => /\ Len(out) = 1
             /\ probs[result].state = "infeasible"
             /\ LET g    == Grid0(result)
                    msg  == out[1]
                    axis == AxisOf(msg)
                    i    == msg[3]
                    k    == RuleOf(msg)
                IN  /\ i \in 0 .. size - 1
                    /\ Broken(g, size, axis, i, k)
                    /\ \A k2 \in 1 .. k - 1 : ~Broken(g, size, axis, i, k2)
                    /\ \A axis2 \in Axes : \A i2 \in 0 .. size - 1 :
                          ScanPlace(axis2, i2) < ScanPlace(axis, i)
                             => \A k2 \in Rules : ~Broken(g, size, axis2, i2, k2)
                    /\ k = 4
                          => /\ Len(msg) = 4
                             /\ msg[4] \in i + 1 .. size - 1
                             /\ \E colour \in {"r", "b"} :
                                   Shares(g, size, axis, i, msg[4], colour)
                             /\ \A o \in i + 1 .. msg[4] - 1 :
                                   \A colour \in {"r", "b"} :
                                      ~Shares(g, size, axis, i, o, colour)

\* a duplicate has been reported for a 4x4 grid in which a later line has
\* too many reds
C12_Witness ==
    /\ Reported
    /\ size = 4
    /\ Len(out) = 1
    /\ RuleOf(out[1]) = 4
    /\ \E axis \in Axes : \E i \in 0 .. 3 : TooMany(Grid0(result), 4, axis, i, "r")

\* ------------------------------------------------------------------------
\* C13.  When a call of solve has returned, the problem it was called on
\* has the state 'solved' or 'infeasible', the state of the problem the
\* call returned.
\* ------------------------------------------------------------------------
Terminal == {"solved", "infeasible"}

C13_PassedInStateUpdated ==
    /\ halt \in {"returned", "exited"}
          => /\ probs[1].state \in Terminal
             /\ probs[1].state = probs[result].state
    /\ \A k \in 1 .. Len(stack) :
          (halt = "running" /\ stack[k].pc = "ret")
             => /\ probs[stack[k].prob].state \in Terminal
                /\ probs[stack[k].prob].state = probs[stack[k].rv].state

Shifted(cell, offset) == <<cell[1] + offset[1], cell[2] + offset[2]>>

C15_IndexSafety ==
    /\ \A k \in DOMAIN Scans(size) :
          LET scan  == Scans(size)[k]
              order == ScanOrder(scan.rows, scan.cols)
          IN  \A j \in DOMAIN order :
                 /\ order[j] \in Coords(size)
                 /\ Shifted(order[j], scan.mask[1]) \in Coords(size)
                 /\ Shifted(order[j], scan.mask[2]) \in Coords(size)
    /\ \A pos \in Windows(size) : {pos, pos + 1, pos + 2} \subseteq 0 .. size - 1
    /\ \A j \in DOMAIN invoked : \A i \in DOMAIN invoked[j] :
          invoked[j][i].name = "eliminate_contiguous" => ~invoked[j][i].raised
    /\ \A d \in DOMAIN dicts : DOMAIN dicts[d] = Coords(size)

\* eliminate_contiguous has written the corner cell of a grid of size 3 or
\* more, whose neighbours all lie on one side, and evaluate_status has
\* scanned the grid
C15_Witness ==
    /\ size >= 3
    /\ Len(stack) > 0
    /\ Top.pc \in {"ret", "branch"}
    /\ \E j \in DOMAIN invoked :
          /\ Len(invoked[j]) > 0
          /\ invoked[j][1].changed
    /\ \E c \in {0, size - 1} \X {0, size - 1} :
          input[c] = "." /\ Grid0(1)[c] # "."

\* ------------------------------------------------------------------------
\* C16.  The no-triple propagator.  The six windows of a cell are the
\* pairs of cells two ahead, two behind and on either side of it, along
\* its column and along its row.
\* ------------------------------------------------------------------------
Offsets ==
    { << <<1, 0>>, <<2, 0>> >>, << <<-1, 0>>, <<-2, 0>> >>,
      << <<1, 0>>, <<-1, 0>> >>, << <<0, 1>>, <<0, 2>> >>,
      << <<0, -1>>, <<0, -2>> >>, << <<0, 1>>, <<0, -1>> >> }

Opposite(colour) == IF colour = "r" THEN "b" ELSE "r"

\* in grid g, some window of cell c holds two cells of the colour
Forced(g, c, colour) ==
    \E w \in Offsets :
        /\ Shifted(c, w[1]) \in DOMAIN g
        /\ Shifted(c, w[2]) \in DOMAIN g
        /\ g[Shifted(c, w[1])] = colour
        /\ g[Shifted(c, w[2])] = colour

\* r is a correct outcome of one call on grid g
NoTripleOutcome(g, r) ==
    /\ ~r.raised
    /\ Narrowed(g, r.cells)
    /\ r.changes <=> (r.cells # g)
    /\ \A c \in DOMAIN g :
          g[c] = "."
             => /\ (Forced(g, c, "r") \/ Forced(g, c, "b")) => r.cells[c] # "."
                /\ r.cells[c] # "." => Forced(r.cells, c, Opposite(r.cells[c]))

\* C16: whenever a driver is about to begin a cycle with a call of
\* eliminate_contiguous, that call examines every cell against its six
\* windows: every undecided cell with a window of two equal decided cells
\* is set, every cell set has the opposite colour of such a window, no
\* other cell is touched, and the call returns True exactly when it has
\* changed a cell.
C16_NoTriplePropagator ==
    (Len(stack) > 0 /\ Top.pc = "cycle" /\ Top.i = 1)
        => NoTripleOutcome(Grid0(Top.prob),
                           eliminate_contiguous(size, Grid0(Top.prob)))

\* eliminate_contiguous has returned True on a grid of size 4 or more in
\* which it set a cell whose window was completed by the same call
C16_Witness ==
    /\ size >= 4
    /\ Len(stack) > 0
    /\ Len(invoked) = 1
    /\ Len(invoked[1]) > 0
    /\ invoked[1][1].changed
    /\ \E c \in DOMAIN input :
          /\ input[c] = "."
          /\ Grid0(Top.prob)[c] # "."
          /\ ~Forced(input, c, "r")
          /\ ~Forced(input, c, "b")

\* ------------------------------------------------------------------------
\* C17.  The balance propagator.  A line is full of a colour when exactly
\* n/2 of its cells have it; the rows are processed on the grid as the
\* call finds it, the columns on the grid the rows have left.
\* ------------------------------------------------------------------------
CountIn(g, n, axis, i, colour) ==
    Cardinality({j \in 0 .. n - 1 : CellAt(g, axis, i, j) = colour})

\* the colour the undecided cells of a line are to get, or "." for none
Fill(g, n, axis, i) ==
    LET reds  == CountIn(g, n, axis, i, "r")
        blues == CountIn(g, n, axis, i, "b")
    IN  IF reds = n \div 2 /\ blues # n \div 2 THEN "b"
        ELSE IF blues = n \div 2 /\ reds # n \div 2 THEN "r"
        ELSE "."

Filled(g, n, axis) ==
    [c \in DOMAIN g |->
        IF g[c] = "." /\ Fill(g, n, axis, IF axis = "row" THEN c[1] ELSE c[2]) # "."
        THEN Fill(g, n, axis, IF axis = "row" THEN c[1] ELSE c[2])
        ELSE g[c]]

BalanceOutcome(g, n, r) ==
    /\ ~r.raised
    /\ r.cells = Filled(Filled(g, n, "row"), n, "col")
    /\ r.changes <=> (r.cells # g)

\* C17: whenever a driver is about to call full_colour, the call fills
\* the rows and then the columns in which exactly one colour is full,
\* leaves the other lines as they are, and returns True exactly when it
\* has changed a cell.
C17_BalancePropagator ==
    (Len(stack) > 0 /\ Top.pc = "cycle"
                    /\ Constraints(impl)[Top.i] = "full_colour")
        => BalanceOutcome(Grid0(Top.prob), size,
                          full_colour(size, Grid0(Top.prob)))

\* ------------------------------------------------------------------------
\* C18.  Search order and short-circuit.  At every branching point the
\* pivot is the first undecided cell, in row-major order, of the grid the
\* driver left, the candidates are 'r' and then 'b', and the choice
\* printed last is the one of the innermost branching point; once a
\* problem is 'solved', no further problem is made, no grid or state is
\* written and no choice is printed: the calls only return.
\* ------------------------------------------------------------------------
FirstUndecided(g, n) ==
    CHOOSE c \in DOMAIN g :
        /\ g[c] = "."
        /\ \A d \in DOMAIN g : g[d] = "." => n * c[1] + c[2] <= n * d[1] + d[2]

Branching(fr) == fr.pc \in {"branch", "wait"}

EvenSizes == {n \in Sizes : n % 2 = 0}

\* the balanced rows that agree with row i of g on the cells g sets
RowsOf(g, n, i) ==
    {row \in BalancedRows(n) :
        \A j \in 0 .. n - 1 : g[<<i, j>>] # "." => row[j] = g[<<i, j>>]}

\* the ways to complete the rows i .. n - 1 of g with balanced rows
RECURSIVE Completions(_, _, _)
Completions(g, n, i) ==
    IF i >= n THEN {<<>>}
    ELSE {<<row>> \o rest : row \in RowsOf(g, n, i),
                            rest \in Completions(g, n, i + 1)}

\* g has a completion that satisfies the three rules
HasCompletion(g, n) ==
    \E rows \in Completions(g, n, 0) :
        ValidGrid([c \in Coords(n) |-> rows[c[1] + 1][c[2]]], n)

Decided(g) == {c \in DOMAIN g : g[c] # "."}

====
